---- MODULE Spec2Model ----
(***************************************************************************)
(* Model of the password_manager_cli credential helper: the three JSON     *)
(* credential files (MFA secrets, passwords, PINs), the upsert and read    *)
(* handlers over them, the secret normalizer and the TOTP time counter.    *)
(*                                                                         *)
(* Strings are Go strings: finite sequences of bytes (0..255).             *)
(***************************************************************************)
EXTENDS Integers, Sequences, FiniteSets, TLC

VARIABLES
    file,     \* the three credential files: store -> [st, entries]
    last,     \* the last handler run: its arguments, outcome and report
    tcall,    \* the last generateTOTPWithOffset call: arguments and result
    fcall,    \* the last call of a pure function: arguments and results
    pc,       \* concurrent SetupMFA invocations: position of each process
    snap,     \* concurrent SetupMFA invocations: the storage each loaded
    arg,      \* concurrent SetupMFA invocations: the arguments of each
    writer    \* concurrent SetupMFA invocations: the last process that saved

vars == <<file, last, tcall, fcall, pc, snap, arg, writer>>

-----------------------------------------------------------------------------
(* Bounds of the model *)

\* appends stop when a collection already holds this many entries
MaxEntries == 2
\* the clock (time.Now().Unix()) ranges over 0 .. MaxClock
MaxClock == 3

-----------------------------------------------------------------------------
(* Byte strings used as inputs *)

Str_empty == << >>
Str_a == <<97>>
Str_b == <<98>>
Str_n == <<110>>
\* the single byte 0xFF: a Go string that is not valid UTF-8
Str_xFF == <<255>>
\* U+00E9 in UTF-8 (two bytes)
Str_eacute == <<195, 169>>
\* "ME": two Base32 characters
Str_ME == <<77, 69>>
\* "MFRGG": five Base32 characters
Str_MFRGG == <<77, 70, 82, 71, 71>>
\* "mf-rg g": the same secret in lower case with a hyphen and a space
Str_mfrgg_spaced == <<109, 102, 45, 114, 103, 32, 103>>
\* "0189": only characters outside the Base32 alphabet
Str_0189 == <<48, 49, 56, 57>>
\* "ABC": three Base32 characters, not a valid undecoded length
Str_ABC == <<65, 66, 67>>

Range(lo, hi) == [i \in 1..(hi - lo + 1) |-> lo + i - 1]

RECURSIVE Join(_, _)
\* strings.Join(parts, sep)
Join(parts, sep) ==
    IF Len(parts) = 0 THEN << >>
    ELSE IF Len(parts) = 1 THEN parts[1]
    ELSE parts[1] \o sep \o Join(Tail(parts), sep)

-----------------------------------------------------------------------------
(* Go integer division: / and % truncate toward zero *)

Abs(x) == IF x < 0 THEN -x ELSE x

\* a / b for b # 0
GoDiv(a, b) ==
    LET q == Abs(a) \div Abs(b)
    IN  IF (a < 0) # (b < 0) THEN -q ELSE q

\* a % b for b # 0: the sign follows the dividend
GoMod(a, b) == a - b * GoDiv(a, b)

-----------------------------------------------------------------------------
(* encoding/json on string fields: Marshal coerces a string to valid UTF-8, *)
(* replacing every invalid byte by U+FFFD; Unmarshal returns what was      *)
(* written.                                                                *)

IsCont(s, i) == i <= Len(s) /\ s[i] >= 128 /\ s[i] <= 191

\* utf8.DecodeRuneInString: the size of the valid encoding at the head of s,
\* 0 when the head byte starts no valid encoding (RuneError, size 1)
RuneLen(s) ==
    LET b == s[1]
    IN  IF b < 128 THEN 1
        ELSE IF b >= 194 /\ b <= 223
            THEN IF IsCont(s, 2) THEN 2 ELSE 0
        ELSE IF b >= 224 /\ b <= 239
            THEN IF /\ IsCont(s, 2) /\ IsCont(s, 3)
                    /\ (b = 224 => s[2] >= 160)
                    /\ (b = 237 => s[2] <= 159)
                 THEN 3 ELSE 0
        ELSE IF b >= 240 /\ b <= 244
            THEN IF /\ IsCont(s, 2) /\ IsCont(s, 3) /\ IsCont(s, 4)
                    /\ (b = 240 => s[2] >= 144)
                    /\ (b = 244 => s[2] <= 143)
                 THEN 4 ELSE 0
        ELSE 0

ReplacementChar == <<239, 191, 189>>

RECURSIVE jsonString(_)
\* the string read back from what json.Marshal wrote for s
jsonString(s) ==
    IF Len(s) = 0 THEN << >>
    ELSE LET n == RuneLen(s)
         IN  IF n = 0
             THEN ReplacementChar \o jsonString(Tail(s))
             ELSE SubSeq(s, 1, n) \o jsonString(SubSeq(s, n + 1, Len(s)))

-----------------------------------------------------------------------------
(* Secret normalizer and Base32 decoding *)

\* strings.ToUpper on an ASCII byte
ToUpperByte(b) == IF b >= 97 /\ b <= 122 THEN b - 32 ELSE b

IsBase32Char(b) == (b >= 65 /\ b <= 90) \/ (b >= 50 /\ b <= 55)

Pad(n) == [i \in 1..n |-> 61]

RECURSIVE ToUpper(_)
\* strings.ToUpper, as far as the filter of cleanSecret can tell: an ASCII
\* letter becomes its capital, U+0131 (bytes C4 B1) becomes I and U+017F
\* (bytes C5 BF) becomes S; every other rune, and every byte that is not
\* valid UTF-8, stays outside ASCII
ToUpper(s) ==
    IF Len(s) = 0 THEN << >>
    ELSE IF Len(s) >= 2 /\ s[1] = 196 /\ s[2] = 177
        THEN <<73>> \o ToUpper(SubSeq(s, 3, Len(s)))
    ELSE IF Len(s) >= 2 /\ s[1] = 197 /\ s[2] = 191
        THEN <<83>> \o ToUpper(SubSeq(s, 3, Len(s)))
    ELSE <<ToUpperByte(s[1])>> \o ToUpper(Tail(s))

\* the filtered, upper-cased characters of the secret (before padding)
FilterSecret(secret) == SelectSeq(ToUpper(secret), IsBase32Char)

\* variant of cleanSecret: a remainder of 5 gets four padding characters
cleanSecret_pad4For5(secret) ==
    LET result == FilterSecret(secret)
        r == Len(result) % 8
    IN  IF r = 2 THEN result \o Pad(6)
        ELSE IF r = 4 THEN result \o Pad(4)
        ELSE IF r = 5 THEN result \o Pad(4)
        ELSE IF r = 7 THEN result \o Pad(1)
        ELSE result

cleanSecret(secret) ==
    LET result == FilterSecret(secret)
        r == Len(result) % 8
    IN  IF r = 2 THEN result \o Pad(6)
        ELSE IF r = 4 THEN result \o Pad(4)
        ELSE IF r = 5 THEN result \o Pad(3)
        ELSE IF r = 7 THEN result \o Pad(1)
        ELSE result

RECURSIVE Base32Corrupt(_, _)
\* base32.StdEncoding.DecodeString(src) returns an error; j is the position
\* inside the current 8-character quantum.  An empty src decodes to no bytes
\* without an error.
Base32Corrupt(src, j) ==
    IF j = 8 THEN (IF Len(src) = 0 THEN FALSE ELSE Base32Corrupt(src, 0))
    ELSE IF Len(src) = 0 THEN j # 0
    ELSE LET in == Head(src)
             rest == Tail(src)
         IN  IF in = 61 /\ j >= 2 /\ Len(rest) < 8
             THEN \/ Len(rest) + j < 7
                  \/ \E k \in 0..(6 - j) : Len(rest) > k /\ rest[k + 1] # 61
                  \/ j \in {1, 3, 6}
             ELSE IF ~IsBase32Char(in) THEN TRUE
             ELSE Base32Corrupt(rest, j + 1)

\* the outcome of generateTOTPWithOffset(secret, period, timeOffset) when
\* time.Now().Unix() = clock.  status "panic" is Go's integer divide by zero.
generateTOTPWithOffset(secret, period, clock, timeOffset) ==
    LET cleanedSecret == cleanSecret(secret)
    IN  IF Base32Corrupt(cleanedSecret, 0)
        THEN [status |-> "error", counter |-> 0, remaining |-> 0]
        ELSE IF period = 0
        THEN [status |-> "panic", counter |-> 0, remaining |-> 0]
        ELSE LET now == clock + timeOffset
             IN  [status |-> "ok",
                  counter |-> GoDiv(now, period),
                  remaining |-> period - GoMod(now, period)]

generateTOTP(secret, period, clock) ==
    generateTOTPWithOffset(secret, period, clock, 0)

-----------------------------------------------------------------------------
(* crypto/sha1 and crypto/hmac.  A 32-bit word is a pair <<high half, low   *)
(* half>> of 16-bit numbers, so that no sum leaves the integers of the      *)
(* checker.                                                                *)

RECURSIVE Bitwise(_, _, _, _, _, _)
\* the n-bit number each of whose bits is op of the bits of a, b, c, d at
\* its place.  "xor": a ^ b ^ c ^ d; "ch": (a & b) | (~a & c); "maj":
\* (a & b) | (a & c) | (b & c)
Bitwise(op, a, b, c, d, n) ==
    IF n = 0 THEN 0
    ELSE LET x == a % 2
             y == b % 2
             z == c % 2
             bit == IF op = "xor" THEN (x + y + z + (d % 2)) % 2
                    ELSE IF op = "ch" THEN IF x = 1 THEN y ELSE z
                    ELSE (x + y + z) \div 2
         IN  bit + 2 * Bitwise(op, a \div 2, b \div 2, c \div 2, d \div 2, n - 1)

\* op on the words a, b, c, d, half by half
WordOp(op, a, b, c, d) ==
    <<Bitwise(op, a[1], b[1], c[1], d[1], 16), Bitwise(op, a[2], b[2], c[2], d[2], 16)>>

ZeroWord == <<0, 0>>

\* x + y modulo 2^32
WordAdd(x, y) ==
    LET lo == x[2] + y[2]
        hi == x[1] + y[1] + (lo \div 65536)
    IN  <<hi % 65536, lo % 65536>>

\* bits.RotateLeft32(x, n) for 0 < n < 32
RotateLeft(x, n) ==
    LET y == IF n >= 16 THEN <<x[2], x[1]>> ELSE x
        m == IF n >= 16 THEN n - 16 ELSE n
    IN  IF m = 0 THEN y
        ELSE <<((y[1] * 2^m) % 65536) + (y[2] \div 2^(16 - m)),
               ((y[2] * 2^m) % 65536) + (y[1] \div 2^(16 - m))>>

Zeros(n) == [i \in 1..n |-> 0]

\* the message followed by 0x80, zeros up to 56 modulo 64, and its length
\* in bits as 8 big-endian bytes
Sha1Pad(msg) ==
    LET n == Len(msg)
        z == (119 - (n % 64)) % 64
        bits == n * 8
    IN  msg \o <<128>> \o Zeros(z) \o Zeros(4)
        \o <<(bits \div 16777216) % 256, (bits \div 65536) % 256,
             (bits \div 256) % 256, bits % 256>>

\* the 16 big-endian words of the 64-byte block that starts after byte k
BlockWords(p, k) ==
    [j \in 1..16 |->
        <<p[k + 4 * j - 3] * 256 + p[k + 4 * j - 2],
          p[k + 4 * j - 1] * 256 + p[k + 4 * j]>>]

RECURSIVE Sha1Extend(_, _)
\* the message schedule w extended to n words
Sha1Extend(w, n) ==
    IF Len(w) >= n THEN w
    ELSE LET t == Len(w) + 1
         IN  Sha1Extend(Append(w,
                RotateLeft(WordOp("xor", w[t - 3], w[t - 8], w[t - 14], w[t - 16]), 1)),
                n)

\* the 80 words of the message schedule, extended 16 words at a time
Sha1Schedule(w) == Sha1Extend(Sha1Extend(Sha1Extend(Sha1Extend(w, 32), 48), 64), 80)

\* the round function and the round constant of round t (1..80)
Sha1F(t, b, c, d) ==
    IF t <= 20 THEN WordOp("ch", b, c, d, ZeroWord)
    ELSE IF t <= 40 THEN WordOp("xor", b, c, d, ZeroWord)
    ELSE IF t <= 60 THEN WordOp("maj", b, c, d, ZeroWord)
    ELSE WordOp("xor", b, c, d, ZeroWord)

Sha1K(t) ==
    IF t <= 20 THEN <<23170, 31129>>
    ELSE IF t <= 40 THEN <<28377, 60321>>
    ELSE IF t <= 60 THEN <<36635, 48348>>
    ELSE <<51810, 49622>>

RECURSIVE Sha1Stage(_, _, _)
\* the rounds from s[6] to n on the working variables
\* s = <<a, b, c, d, e, t>>
Sha1Stage(w, s, n) ==
    IF s[6] > n THEN s
    ELSE LET t == s[6]
             temp == WordAdd(WordAdd(WordAdd(WordAdd(RotateLeft(s[1], 5),
                                Sha1F(t, s[2], s[3], s[4])), s[5]), Sha1K(t)), w[t])
         IN  Sha1Stage(w, <<temp, s[1], RotateLeft(s[2], 30), s[3], s[4], t + 1>>, n)

\* the 80 rounds, in the four stages of 20
Sha1Rounds(w, s) == Sha1Stage(w, Sha1Stage(w, Sha1Stage(w, Sha1Stage(w, s, 20), 40), 60), 80)

\* the chaining value h plus the working variables s, word by word
Sha1Sum(h, s) == <<WordAdd(h[1], s[1]), WordAdd(h[2], s[2]), WordAdd(h[3], s[3]),
                   WordAdd(h[4], s[4]), WordAdd(h[5], s[5])>>

RECURSIVE Sha1Blocks(_, _, _)
\* the chaining value after the blocks of p that start after byte k
Sha1Blocks(p, k, h) ==
    IF k >= Len(p) THEN h
    ELSE Sha1Blocks(p, k + 64,
            Sha1Sum(h, Sha1Rounds(Sha1Schedule(BlockWords(p, k)), h \o <<1>>)))

\* the 20 big-endian bytes of the five words of h
Sha1Bytes(h) ==
    [i \in 1..20 |->
        IF (i - 1) % 4 = 0 THEN h[(i + 3) \div 4][1] \div 256
        ELSE IF (i - 1) % 4 = 1 THEN h[(i + 3) \div 4][1] % 256
        ELSE IF (i - 1) % 4 = 2 THEN h[(i + 3) \div 4][2] \div 256
        ELSE h[(i + 3) \div 4][2] % 256]

\* sha1.Sum(msg): 20 bytes
Sha1(msg) ==
    Sha1Bytes(Sha1Blocks(Sha1Pad(msg), 0,
                         <<<<26437, 8961>>, <<61389, 43913>>, <<39098, 56574>>,
                           <<4146, 21622>>, <<50130, 57840>>>>))

\* hmac.New(sha1.New, key) written with msg and summed
HmacSha1(key, msg) ==
    LET k0 == IF Len(key) > 64 THEN Sha1(key) ELSE key
        kp == k0 \o Zeros(64 - Len(k0))
        ipad == [i \in 1..64 |-> Bitwise("xor", kp[i], 54, 0, 0, 8)]
        opad == [i \in 1..64 |-> Bitwise("xor", kp[i], 92, 0, 0, 8)]
    IN  Sha1(opad \o Sha1(ipad \o msg))

-----------------------------------------------------------------------------
(* The one-time code: Base32 decoding, the counter bytes, the truncation   *)
(* and the formatting.  It is computed apart from generateTOTPWithOffset   *)
(* above because no handler's outcome depends on the digits of the code.   *)

\* the 5-bit value of a character of the Base32 alphabet ('=' counts 0)
Base32Value(c) ==
    IF c >= 65 /\ c <= 90 THEN c - 65
    ELSE IF c >= 50 /\ c <= 55 THEN c - 24
    ELSE 0

RECURSIVE Base32Decode(_)
\* base32.StdEncoding.DecodeString(src) for a src it accepts: each quantum
\* of 8 characters gives 5 bytes, fewer when it ends in padding
Base32Decode(src) ==
    IF Len(src) = 0 THEN << >>
    ELSE LET v == [i \in 1..8 |-> Base32Value(src[i])]
             n == Cardinality({i \in 1..8 : src[i] # 61})
             bytes == <<v[1] * 8 + (v[2] \div 4),
                        (v[2] % 4) * 64 + v[3] * 2 + (v[4] \div 16),
                        (v[4] % 16) * 16 + (v[5] \div 2),
                        (v[5] % 2) * 128 + v[6] * 4 + (v[7] \div 8),
                        (v[7] % 8) * 32 + v[8]>>
         IN  SubSeq(bytes, 1, (n * 5) \div 8) \o Base32Decode(SubSeq(src, 9, Len(src)))

\* the four big-endian bytes of n, 0 <= n < 2^31
Uint32Bytes(n) ==
    <<(n \div 16777216) % 256, (n \div 65536) % 256, (n \div 256) % 256, n % 256>>

\* binary.BigEndian.PutUint64(buf, uint64(counter)) for -2^31 <= counter <
\* 2^31: a negative counter converts to its two's complement
Uint64Bytes(counter) ==
    IF counter >= 0 THEN Zeros(4) \o Uint32Bytes(counter)
    ELSE [i \in 1..8 |-> 255 - (Zeros(4) \o Uint32Bytes(-counter - 1))[i]]

\* fmt.Sprintf("%06d", n) for 0 <= n < 1000000
Sprintf06d(n) == [i \in 1..6 |-> 48 + ((n \div 10^(6 - i)) % 10)]

\* the 31 bits of the hash that start at byte offset (counted from 0)
Uint31At(hash, offset) ==
    (hash[offset + 1] % 128) * 16777216 + hash[offset + 2] * 65536
    + hash[offset + 3] * 256 + hash[offset + 4]

\* the truncated value and the six digits made of it
CodeOf(truncatedHash) ==
    [truncatedHash |-> truncatedHash, otp |-> Sprintf06d(truncatedHash % 1000000)]

\* variant of Truncate: the offset is the high nibble of the last hash byte
Truncate_highNibble(hash) == CodeOf(Uint31At(hash, hash[20] \div 16))

\* the dynamic truncation of the hash to 31 bits, and the six digits
Truncate(hash) == CodeOf(Uint31At(hash, hash[20] % 16))

\* the HMAC-SHA1 of the counter, truncated and formatted
TotpCode(key, counter) == Truncate(HmacSha1(key, Uint64Bytes(counter)))

\* generateTOTPWithOffset with the code it returns
generateTOTPWithOffsetCode(secret, period, clock, timeOffset) ==
    LET r == generateTOTPWithOffset(secret, period, clock, timeOffset)
        key == Base32Decode(cleanSecret(secret))
    IN  IF r.status # "ok"
        THEN [status |-> r.status, counter |-> 0, remaining |-> 0, key |-> << >>,
              code |-> CodeOf(0)]
        ELSE [status |-> "ok", counter |-> r.counter, remaining |-> r.remaining,
              key |-> key, code |-> TotpCode(key, r.counter)]

\* "12345678901234567890": the secret of the RFC 6238 test vectors
Str_rfc == <<49, 50, 51, 52, 53, 54, 55, 56, 57, 48,
             49, 50, 51, 52, 53, 54, 55, 56, 57, 48>>

\* testTOTP: what it computes and prints (code.otp is expectedOTP)
testTOTP ==
    LET testSecretBytes == Str_rfc
        testPeriod == 30
        testTime == 59
        testCounter == GoDiv(testTime, testPeriod)
    IN  [testCounter |-> testCounter, code |-> TotpCode(testSecretBytes, testCounter)]

-----------------------------------------------------------------------------
(* The credential files *)

Stores == {"mfa", "pass", "pin"}

\* a file that does not exist
AbsentFile == [st |-> "absent", entries |-> << >>]
\* a file of zero bytes
EmptyFile == [st |-> "empty", entries |-> << >>]
\* a non-empty file that does not parse as JSON (a partial write)
PartialFile == [st |-> "partial", entries |-> << >>]
\* a file holding the JSON document of a collection
JsonFile(entries) == [st |-> "json", entries |-> entries]

Min(S) == CHOOSE x \in S : \A y \in S : x <= y

MFAEntry(account, name, secret, period) ==
    [Account |-> account, Name |-> name, Secret |-> secret, Period |-> period]

PasswordEntry(name, account, password, length, config) ==
    [Name |-> name, Account |-> account, Password |-> password,
     Length |-> length, Config |-> config]

MPINEntry(name, account, pin) ==
    [Name |-> name, Account |-> account, PIN |-> pin]

\* json.MarshalIndent of an MFAStorage, as json.Unmarshal reads it back
marshalMFA(entries) ==
    [i \in 1..Len(entries) |->
        MFAEntry(jsonString(entries[i].Account), jsonString(entries[i].Name),
                 jsonString(entries[i].Secret), entries[i].Period)]

marshalPassword(entries) ==
    [i \in 1..Len(entries) |->
        PasswordEntry(jsonString(entries[i].Name), jsonString(entries[i].Account),
                      jsonString(entries[i].Password), entries[i].Length,
                      jsonString(entries[i].Config))]

marshalMPIN(entries) ==
    [i \in 1..Len(entries) |->
        MPINEntry(jsonString(entries[i].Name), jsonString(entries[i].Account),
                  jsonString(entries[i].PIN))]

\* io = "fail": the home directory, the config directory or the file cannot
\* be read
loadMFAStorage(f, io) ==
    IF io = "fail" THEN [err |-> TRUE, entries |-> << >>]
    ELSE IF f.st = "absent" THEN [err |-> FALSE, entries |-> << >>]
    ELSE IF f.st = "empty" THEN [err |-> FALSE, entries |-> << >>]
    ELSE IF f.st = "partial" THEN [err |-> TRUE, entries |-> << >>]
    ELSE [err |-> FALSE, entries |-> f.entries]

\* variant of loadPasswordStorage: a file that does not parse loads as the
\* empty collection
loadPasswordStorage_lenient(f, io) ==
    IF io = "fail" THEN [err |-> TRUE, entries |-> << >>]
    ELSE IF f.st = "absent" THEN [err |-> FALSE, entries |-> << >>]
    ELSE IF f.st = "empty" THEN [err |-> FALSE, entries |-> << >>]
    ELSE IF f.st = "partial" THEN [err |-> FALSE, entries |-> << >>]
    ELSE [err |-> FALSE, entries |-> f.entries]

loadPasswordStorage(f, io) ==
    IF io = "fail" THEN [err |-> TRUE, entries |-> << >>]
    ELSE IF f.st = "absent" THEN [err |-> FALSE, entries |-> << >>]
    ELSE IF f.st = "empty" THEN [err |-> FALSE, entries |-> << >>]
    ELSE IF f.st = "partial" THEN [err |-> TRUE, entries |-> << >>]
    ELSE [err |-> FALSE, entries |-> f.entries]

\* no check for a file of zero bytes: json.Unmarshal of no data is an error
loadMPINConfig(f, io) ==
    IF io = "fail" THEN [err |-> TRUE, entries |-> << >>]
    ELSE IF f.st = "absent" THEN [err |-> FALSE, entries |-> << >>]
    ELSE IF f.st \in {"empty", "partial"} THEN [err |-> TRUE, entries |-> << >>]
    ELSE [err |-> FALSE, entries |-> f.entries]

\* os.WriteFile truncates the file and then writes it.  io = "ok": written;
\* "open": the path cannot be resolved or opened, the file is as it was;
\* "trunc": the write fails after the truncation, the file has zero bytes;
\* "partial": the write fails part way, the file holds a prefix.
writeFile(f, marshalled, io) ==
    IF io = "ok" THEN [err |-> FALSE, file |-> JsonFile(marshalled)]
    ELSE IF io = "open" THEN [err |-> TRUE, file |-> f]
    ELSE IF io = "trunc" THEN [err |-> TRUE, file |-> EmptyFile]
    ELSE [err |-> TRUE, file |-> PartialFile]

saveMFAStorage(f, entries, io) == writeFile(f, marshalMFA(entries), io)

savePasswordStorage(f, entries, io) == writeFile(f, marshalPassword(entries), io)

saveMPINConfig(f, entries, io) == writeFile(f, marshalMPIN(entries), io)

LoadIO == {"ok", "fail"}

\* what goes wrong in one run of the tool, if anything: the load, the random
\* source, or the write (see writeFile)
Faults == {"none", "load", "rand", "open", "trunc", "partial"}

LoadOf(fault) == IF fault = "load" THEN "fail" ELSE "ok"

SaveOf(fault) == IF fault \in {"open", "trunc", "partial"} THEN fault ELSE "ok"

RandOf(fault) == fault # "rand"

SaveIO == {"ok", "open", "trunc", "partial"}

-----------------------------------------------------------------------------
(* MFA handlers *)

\* index of the first entry with this key, 0 when there is none
MFAIndex(entries, account, name) ==
    LET S == {i \in 1..Len(entries) :
                entries[i].Account = account /\ entries[i].Name = name}
    IN  IF S = {} THEN 0 ELSE Min(S)

\* variant of the scan: a matching entry is removed and the new one appended
upsertMFA_moveToEnd(entries, account, name, secret, period) ==
    LET i == MFAIndex(entries, account, name)
        e == MFAEntry(account, name, secret, period)
    IN  IF i # 0
        THEN Append(SubSeq(entries, 1, i - 1) \o SubSeq(entries, i + 1, Len(entries)), e)
        ELSE Append(entries, e)

\* the scan of SetupMFA: replace in place, or append
upsertMFA(entries, account, name, secret, period) ==
    LET i == MFAIndex(entries, account, name)
        e == MFAEntry(account, name, secret, period)
    IN  IF i # 0 THEN [entries EXCEPT ![i] = e] ELSE Append(entries, e)

\* variant of the scan and save: the scan runs on the file as it is now
storeMFA_reread(f, entries, account, name, secret, period, sio) ==
    saveMFAStorage(f, upsertMFA(f.entries, account, name, secret, period), sio)

\* the scan and the save of SetupMFA on the storage it loaded
storeMFA(f, entries, account, name, secret, period, sio) ==
    saveMFAStorage(f, upsertMFA(entries, account, name, secret, period), sio)

\* variant of SetupMFA: the secret is not tried before the storage is loaded
SetupMFA_noValidate(f, account, name, secret, period, clock, lio, sio) ==
    LET storage == loadMFAStorage(f, lio)
        saved == storeMFA(f, storage.entries, account, name, secret, period, sio)
    IN  IF storage.err THEN [status |-> "error", file |-> f]
        ELSE [status |-> IF saved.err THEN "error" ELSE "ok", file |-> saved.file]

\* SetupMFA on the file f; status "panic" ends the process
SetupMFA(f, account, name, secret, period, clock, lio, sio) ==
    LET v == generateTOTP(secret, period, clock)
        storage == loadMFAStorage(f, lio)
        saved == storeMFA(f, storage.entries, account, name, secret, period, sio)
    IN  IF v.status # "ok" THEN [status |-> v.status, file |-> f]
        ELSE IF storage.err THEN [status |-> "error", file |-> f]
        ELSE [status |-> IF saved.err THEN "error" ELSE "ok", file |-> saved.file]

ListMFA(f, lio) == loadMFAStorage(f, lio)

\* the outcomes of the five calls generateTOTPCodes makes; it prints a
\* failed call and goes on
generateTOTPCodes(secret, period, clock) ==
    {generateTOTPWithOffset(secret, period, clock, o).status : o \in {-60, -30, 0, 30, 60}}

\* variant of GenerateMFA: the scan compares the name only
GenerateMFA_nameOnly(f, account, name, clock, lio) ==
    LET storage == loadMFAStorage(f, lio)
        S == {j \in 1..Len(storage.entries) : storage.entries[j].Name = name}
        i == IF S = {} THEN 0 ELSE Min(S)
        entry == storage.entries[i]
        g == generateTOTP(entry.Secret, entry.Period, clock)
    IN  IF storage.err THEN [status |-> "error", why |-> "load", out |-> << >>]
        ELSE IF i = 0 THEN [status |-> "error", why |-> "notfound", out |-> << >>]
        ELSE IF "panic" \in generateTOTPCodes(entry.Secret, entry.Period, clock)
        THEN [status |-> "panic", why |-> "", out |-> << >>]
        ELSE IF g.status = "error"
        THEN [status |-> "error", why |-> "totp", out |-> << >>]
        ELSE [status |-> g.status, why |-> "", out |-> <<entry>>]

\* GenerateMFA on the file f when time.Now().Unix() = clock.  out: the entry
\* a code is returned for, if any; why: the error returned ("totp": failed
\* to generate TOTP); status "panic" ends the process
GenerateMFA(f, account, name, clock, lio) ==
    LET storage == loadMFAStorage(f, lio)
        i == MFAIndex(storage.entries, account, name)
        entry == storage.entries[i]
        g == generateTOTP(entry.Secret, entry.Period, clock)
    IN  IF storage.err THEN [status |-> "error", why |-> "load", out |-> << >>]
        ELSE IF i = 0 THEN [status |-> "error", why |-> "notfound", out |-> << >>]
        ELSE IF "panic" \in generateTOTPCodes(entry.Secret, entry.Period, clock)
        THEN [status |-> "panic", why |-> "", out |-> << >>]
        ELSE IF g.status = "error"
        THEN [status |-> "error", why |-> "totp", out |-> << >>]
        ELSE [status |-> g.status, why |-> "", out |-> <<entry>>]

-----------------------------------------------------------------------------
(* Password handlers *)

Lowercase == Range(97, 122)

Uppercase == Range(65, 90)

Digits == Range(48, 57)

\* "!@#$%^&*()_+-=[]{}|;:,.<>?"
DefaultSpecial ==
    <<33, 64, 35, 36, 37, 94, 38, 42, 40, 41, 95, 43, 45, 61, 91, 93, 123,
      125, 124, 59, 58, 44, 46, 60, 62, 63>>

\* "lowercase", "uppercase", "digits", "special(", ")", "all (default)", ", "
W_lowercase == <<108, 111, 119, 101, 114, 99, 97, 115, 101>>
W_uppercase == <<117, 112, 112, 101, 114, 99, 97, 115, 101>>
W_digits == <<100, 105, 103, 105, 116, 115>>
W_special == <<115, 112, 101, 99, 105, 97, 108, 40>>
W_close == <<41>>
W_all_default == <<97, 108, 108, 32, 40, 100, 101, 102, 97, 117, 108, 116, 41>>
W_comma == <<44, 32>>

\* rand.Int(rand.Reader, n), sampled at its extremes: draw 0 is index 0,
\* any other draw is index n - 1
RandIndex(draw, n) == IF draw = 0 THEN 0 ELSE n - 1

\* the alphabet generatePassword draws from
passwordCharset(useSmallAlpha, useLargeAlpha, useDigits, specialChars) ==
    LET charset == (IF useSmallAlpha THEN Lowercase ELSE << >>)
                   \o (IF useLargeAlpha THEN Uppercase ELSE << >>)
                   \o (IF useDigits THEN Digits ELSE << >>)
                   \o specialChars
    IN  IF charset = << >>
        THEN Lowercase \o Uppercase \o Digits \o DefaultSpecial
        ELSE charset

\* variant of generatePassword: only a negative length is refused
generatePassword_lengthLt0(length, useSmallAlpha, useLargeAlpha, useDigits, specialChars, draws, randOk) ==
    LET charset == passwordCharset(useSmallAlpha, useLargeAlpha, useDigits,
                                   specialChars)
    IN  IF length < 0 THEN [err |-> TRUE, password |-> << >>, why |-> "length"]
        ELSE IF Len(charset) = 0
        THEN [err |-> TRUE, password |-> << >>, why |-> "nochars"]
        ELSE IF ~randOk THEN [err |-> TRUE, password |-> << >>, why |-> "rand"]
        ELSE [err |-> FALSE,
              password |-> [i \in 1..length |->
                              charset[RandIndex(draws[i], Len(charset)) + 1]],
              why |-> ""]

\* draws: one random draw per position; randOk: the random source works;
\* why: the error returned ("nochars": no characters available)
generatePassword(length, useSmallAlpha, useLargeAlpha, useDigits, specialChars, draws, randOk) ==
    LET charset == passwordCharset(useSmallAlpha, useLargeAlpha, useDigits,
                                   specialChars)
    IN  IF length <= 0 THEN [err |-> TRUE, password |-> << >>, why |-> "length"]
        ELSE IF Len(charset) = 0
        THEN [err |-> TRUE, password |-> << >>, why |-> "nochars"]
        ELSE IF ~randOk THEN [err |-> TRUE, password |-> << >>, why |-> "rand"]
        ELSE [err |-> FALSE,
              password |-> [i \in 1..length |->
                              charset[RandIndex(draws[i], Len(charset)) + 1]],
              why |-> ""]

\* the config string AddPassword stores
passwordConfig(useSmallAlpha, useLargeAlpha, useDigits, specialChars) ==
    LET configParts ==
            (IF useSmallAlpha THEN <<W_lowercase>> ELSE << >>)
            \o (IF useLargeAlpha THEN <<W_uppercase>> ELSE << >>)
            \o (IF useDigits THEN <<W_digits>> ELSE << >>)
            \o (IF specialChars # << >>
                THEN <<W_special \o specialChars \o W_close>> ELSE << >>)
        config == Join(configParts, W_comma)
    IN  IF config = << >> THEN W_all_default ELSE config

KeyIndex(entries, name, account) ==
    LET S == {i \in 1..Len(entries) :
                entries[i].Name = name /\ entries[i].Account = account}
    IN  IF S = {} THEN 0 ELSE Min(S)

upsertPassword(entries, e) ==
    LET i == KeyIndex(entries, e.Name, e.Account)
    IN  IF i # 0 THEN [entries EXCEPT ![i] = e] ELSE Append(entries, e)

\* printed: the "Password updated/generated for ..." line was written;
\* why: the error returned, "" when there is none
AddPassword(f, name, account, length, useSmallAlpha, useLargeAlpha, useDigits, specialChars, draws, randOk, lio, sio) ==
    LET g == generatePassword(length, useSmallAlpha, useLargeAlpha, useDigits,
                              specialChars, draws, randOk)
        config == passwordConfig(useSmallAlpha, useLargeAlpha, useDigits,
                                 specialChars)
        e == PasswordEntry(name, account, g.password, length, config)
        storage == loadPasswordStorage(f, lio)
        saved == savePasswordStorage(f, upsertPassword(storage.entries, e), sio)
    IN  IF name = << >> \/ account = << >>
        THEN [status |-> "error", file |-> f, printed |-> FALSE, entry |-> e,
              why |-> "name"]
        ELSE IF g.err
        THEN [status |-> "error", file |-> f, printed |-> FALSE, entry |-> e,
              why |-> g.why]
        ELSE IF storage.err
        THEN [status |-> "error", file |-> f, printed |-> FALSE, entry |-> e,
              why |-> "load"]
        ELSE [status |-> IF saved.err THEN "error" ELSE "ok",
              file |-> saved.file, printed |-> TRUE, entry |-> e,
              why |-> IF saved.err THEN "save" ELSE ""]

\* "default": the value of -s that stands for the default special characters
Str_default == <<100, 101, 102, 97, 117, 108, 116>>

\* variant of handleAddPassword: the fallback sets the three class flags and
\* leaves the special characters empty
handleAddPassword_noSpecial(f, name, account, length, smallAlpha, largeAlpha, digits, specialChars, draws, randOk, lio, sio) ==
    LET actualSpecialChars ==
            IF specialChars = Str_default THEN DefaultSpecial ELSE specialChars
        noFlags == ~smallAlpha /\ ~largeAlpha /\ ~digits /\ specialChars = << >>
    IN  AddPassword(f, name, account, length, smallAlpha \/ noFlags,
                    largeAlpha \/ noFlags, digits \/ noFlags,
                    actualSpecialChars, draws, randOk, lio, sio)

\* the add-pass command after flag parsing.  An empty name or account ends
\* the process with an error before AddPassword (which refuses them too).
handleAddPassword(f, name, account, length, smallAlpha, largeAlpha, digits, specialChars, draws, randOk, lio, sio) ==
    LET noFlags == ~smallAlpha /\ ~largeAlpha /\ ~digits /\ specialChars = << >>
        actualSpecialChars ==
            IF noFlags THEN DefaultSpecial
            ELSE IF specialChars = Str_default THEN DefaultSpecial
            ELSE specialChars
    IN  AddPassword(f, name, account, length, smallAlpha \/ noFlags,
                    largeAlpha \/ noFlags, digits \/ noFlags,
                    actualSpecialChars, draws, randOk, lio, sio)

GetPasswords(f, lio) == loadPasswordStorage(f, lio)

-----------------------------------------------------------------------------
(* PIN handlers *)

generateMPIN(length, draws, randOk) ==
    IF length <= 0 THEN [err |-> TRUE, pin |-> << >>]
    ELSE IF ~randOk THEN [err |-> TRUE, pin |-> << >>]
    ELSE [err |-> FALSE,
          pin |-> [i \in 1..length |-> 48 + RandIndex(draws[i], 10)]]

\* the scan of AddMPIN: set the PIN of the matching entry, or append
upsertMPIN(entries, name, account, pin) ==
    LET i == KeyIndex(entries, name, account)
    IN  IF i # 0 THEN [entries EXCEPT ![i].PIN = pin]
        ELSE Append(entries, MPINEntry(name, account, pin))

\* printed: the "MPIN updated/generated for ..." line was written
AddMPIN(f, name, account, length, draws, randOk, lio, sio) ==
    LET config == loadMPINConfig(f, lio)
        g == generateMPIN(length, draws, randOk)
        e == MPINEntry(name, account, g.pin)
        saved == saveMPINConfig(f, upsertMPIN(config.entries, name, account, g.pin), sio)
    IN  IF name = << >> \/ account = << >>
        THEN [status |-> "error", file |-> f, printed |-> FALSE, entry |-> e]
        ELSE IF length <= 0
        THEN [status |-> "error", file |-> f, printed |-> FALSE, entry |-> e]
        ELSE IF config.err
        THEN [status |-> "error", file |-> f, printed |-> FALSE, entry |-> e]
        ELSE IF g.err
        THEN [status |-> "error", file |-> f, printed |-> FALSE, entry |-> e]
        ELSE IF saved.err
        THEN [status |-> "error", file |-> saved.file, printed |-> FALSE, entry |-> e]
        ELSE [status |-> "ok", file |-> saved.file, printed |-> TRUE, entry |-> e]

\* GetMPIN: the entries it prints (at most one)
GetMPIN(f, name, account, lio) ==
    LET config == loadMPINConfig(f, lio)
        i == KeyIndex(config.entries, name, account)
    IN  IF name = << >> \/ account = << >> THEN [err |-> TRUE, entries |-> << >>]
        ELSE IF config.err THEN [err |-> TRUE, entries |-> << >>]
        ELSE IF i = 0 THEN [err |-> TRUE, entries |-> << >>]
        ELSE [err |-> FALSE, entries |-> <<config.entries[i]>>]

ListMPINs(f, lio) == loadMPINConfig(f, lio)

-----------------------------------------------------------------------------
(* Inputs *)

\* the default of the -s flag of setup-mfa
DefaultPeriod == 30

Accounts == {Str_a, Str_b}

\* account arguments of setup-mfa; argv is any byte string
MFAAccounts == {Str_a, Str_xFF}

Names == {Str_n}

\* (name, account) arguments of add-pass and add-mpin
Keys == (Names \X Accounts) \cup {<<Str_empty, Str_a>>}

\* "M\xffE": two Base32 characters around a byte that is not valid UTF-8
Str_MxFFE == <<77, 255, 69>>

Secrets == {Str_ME, Str_MxFFE, Str_0189, Str_ABC}

Periods == {0, DefaultPeriod}

\* the -l arguments tried by the model
Lengths == {-1, 0, 1}

\* the -a, -A, -d and -s arguments of add-pass tried by the model
CharClasses ==
    { [a |-> TRUE,  A |-> FALSE, d |-> FALSE, s |-> Str_empty],
      [a |-> FALSE, A |-> FALSE, d |-> FALSE, s |-> Str_eacute] }

\* the random draws of one generation of the given length
Draws(length) == IF length <= 0 THEN {<< >>} ELSE [1..length -> {0, 1}]

Procs == {1, 2}

NoEntry == MPINEntry(<< >>, << >>, << >>)

NoHandler ==
    [op |-> "none", store |-> "none", status |-> "none", printed |-> FALSE,
     entry |-> NoEntry, length |-> 0, out |-> << >>]

NoCall ==
    [called |-> FALSE, secret |-> << >>, period |-> 0, clock |-> 0,
     timeOffset |-> 0, res |-> [status |-> "none", counter |-> 0, remaining |-> 0]]

NoFunction == [fn |-> "none"]

Init ==
    /\ file = [s \in Stores |-> AbsentFile]
    /\ last = NoHandler
    /\ tcall = NoCall
    /\ fcall = NoFunction
    /\ pc = [p \in Procs |-> "idle"]
    /\ snap = [p \in Procs |-> << >>]
    /\ arg = [p \in Procs |-> MFAEntry(<< >>, << >>, << >>, 0)]
    /\ writer = 0

\* The three credential classes share no state (separate files, separate
\* code): a behaviour works on one class, the other two files stay absent.
Focus(s) == \A t \in Stores \ {s} : file[t].st = "absent"

-----------------------------------------------------------------------------
(* Sequential invocations: each action is one run of the tool *)

DoSetupMFA ==
    \E account \in MFAAccounts, name \in Names, secret \in Secrets,
       period \in Periods, clock \in {0, MaxClock}, fault \in Faults \ {"rand"} :
        LET r == SetupMFA(file["mfa"], account, name, secret, period, clock,
                          LoadOf(fault), SaveOf(fault))
        IN  /\ Focus("mfa")
            /\ Len(r.file.entries) <= MaxEntries
            /\ file' = [file EXCEPT !["mfa"] = r.file]
            /\ last' = [op |-> "SetupMFA", store |-> "mfa", status |-> r.status,
                        printed |-> FALSE,
                        entry |-> MFAEntry(account, name, secret, period),
                        length |-> 0, out |-> << >>]
            /\ UNCHANGED <<tcall, fcall, pc, snap, arg, writer>>

DoListMFA ==
    \E lio \in LoadIO :
        LET r == ListMFA(file["mfa"], lio)
        IN  /\ Focus("mfa")
            /\ last' = [op |-> "ListMFA", store |-> "mfa",
                        status |-> IF r.err THEN "error" ELSE "ok",
                        printed |-> FALSE, entry |-> NoEntry, length |-> 0,
                        out |-> r.entries]
            /\ UNCHANGED <<file, tcall, fcall, pc, snap, arg, writer>>

DoGenerateMFA ==
    \E account \in MFAAccounts, name \in Names, clock \in {0, MaxClock}, lio \in LoadIO :
        LET r == GenerateMFA(file["mfa"], account, name, clock, lio)
        IN  /\ Focus("mfa")
            /\ last' = [op |-> "GenerateMFA", store |-> "mfa", status |-> r.status,
                        printed |-> FALSE,
                        entry |-> MFAEntry(account, name, << >>, 0),
                        length |-> 0, out |-> r.out, why |-> r.why]
            /\ UNCHANGED <<file, tcall, fcall, pc, snap, arg, writer>>

DoAddPassword ==
    \E k \in Keys, length \in Lengths, c \in CharClasses, fault \in Faults :
        \E draws \in Draws(length) :
            LET name == k[1]
                account == k[2]
                r == AddPassword(file["pass"], name, account, length, c.a, c.A, c.d,
                                 c.s, draws, RandOf(fault), LoadOf(fault), SaveOf(fault))
            IN  /\ Focus("pass")
                /\ Len(r.file.entries) <= MaxEntries
                /\ file' = [file EXCEPT !["pass"] = r.file]
                /\ last' = [op |-> "AddPassword", store |-> "pass",
                            status |-> r.status, printed |-> r.printed,
                            entry |-> r.entry, length |-> length, out |-> << >>,
                            why |-> r.why]
                /\ UNCHANGED <<tcall, fcall, pc, snap, arg, writer>>

DoGetPasswords ==
    \E lio \in LoadIO :
        LET r == GetPasswords(file["pass"], lio)
        IN  /\ Focus("pass")
            /\ last' = [op |-> "GetPasswords", store |-> "pass",
                        status |-> IF r.err THEN "error" ELSE "ok",
                        printed |-> FALSE, entry |-> NoEntry, length |-> 0,
                        out |-> r.entries]
            /\ UNCHANGED <<file, tcall, fcall, pc, snap, arg, writer>>

DoAddMPIN ==
    \E k \in Keys, length \in Lengths, fault \in Faults :
        \E draws \in Draws(length) :
            LET name == k[1]
                account == k[2]
                r == AddMPIN(file["pin"], name, account, length, draws,
                             RandOf(fault), LoadOf(fault), SaveOf(fault))
            IN  /\ Focus("pin")
                /\ Len(r.file.entries) <= MaxEntries
                /\ file' = [file EXCEPT !["pin"] = r.file]
                /\ last' = [op |-> "AddMPIN", store |-> "pin",
                            status |-> r.status, printed |-> r.printed,
                            entry |-> r.entry, length |-> length, out |-> << >>]
                /\ UNCHANGED <<tcall, fcall, pc, snap, arg, writer>>

DoGetMPIN ==
    \E name \in Names, account \in Accounts, lio \in LoadIO :
        LET r == GetMPIN(file["pin"], name, account, lio)
        IN  /\ Focus("pin")
            /\ last' = [op |-> "GetMPIN", store |-> "pin",
                        status |-> IF r.err THEN "error" ELSE "ok",
                        printed |-> FALSE,
                        entry |-> MPINEntry(name, account, << >>), length |-> 0,
                        out |-> r.entries]
            /\ UNCHANGED <<file, tcall, fcall, pc, snap, arg, writer>>

DoListMPINs ==
    \E lio \in LoadIO :
        LET r == ListMPINs(file["pin"], lio)
        IN  /\ Focus("pin")
            /\ last' = [op |-> "ListMPINs", store |-> "pin",
                        status |-> IF r.err THEN "error" ELSE "ok",
                        printed |-> FALSE, entry |-> NoEntry, length |-> 0,
                        out |-> r.entries]
            /\ UNCHANGED <<file, tcall, fcall, pc, snap, arg, writer>>

\* the environment: a credential file is created with no content
TouchFile ==
    \E s \in Stores :
        /\ Focus(s)
        /\ file[s].st = "absent"
        /\ file' = [file EXCEPT ![s] = EmptyFile]
        /\ last' = [NoHandler EXCEPT !.op = "touch", !.store = s]
        /\ UNCHANGED <<tcall, fcall, pc, snap, arg, writer>>

Next ==
    \/ TouchFile
    \/ DoSetupMFA
    \/ DoListMFA
    \/ DoGenerateMFA
    \/ DoAddPassword
    \/ DoGetPasswords
    \/ DoAddMPIN
    \/ DoGetMPIN
    \/ DoListMPINs

Spec == Init /\ [][Next]_vars

-----------------------------------------------------------------------------
(* Properties of the credential stores, checked under Spec *)

Upserts == {"SetupMFA", "AddPassword", "AddMPIN"}

KeyOf(e) == <<e.Name, e.Account>>

KeysDistinct(entries) ==
    \A i, j \in 1..Len(entries) : i # j => KeyOf(entries[i]) # KeyOf(entries[j])

\* index of the first entry with key k, 0 when there is none
IndexOfKey(entries, k) ==
    LET S == {i \in 1..Len(entries) : KeyOf(entries[i]) = k}
    IN  IF S = {} THEN 0 ELSE Min(S)

\* the entry as the file holds it after a save
Stored(e) ==
    [f \in DOMAIN e |-> IF f \in {"Period", "Length"} THEN e[f] ELSE jsonString(e[f])]

\* C1: starting from no files, after any sequence of completed SetupMFA /
\* AddPassword / AddMPIN runs no two entries of one collection have the same
\* key pair.
C1_KeysUnique == \A s \in Stores : KeysDistinct(file[s].entries)

\* C2: a successful upsert of a key the loaded collection holds keeps the
\* length, keeps the entry at its index and keeps every other entry; a
\* successful upsert of a key it does not hold appends exactly one entry at
\* the end and keeps all the others.
C2_UpsertInPlaceOrAppend ==
    [][(last'.op \in Upserts /\ last'.status = "ok") =>
        LET old == file[last'.store].entries
            new == file'[last'.store].entries
            k == KeyOf(last'.entry)
            i == IndexOfKey(old, k)
        IN  IF i # 0
            THEN /\ Len(new) = Len(old)
                 /\ KeyOf(new[i]) = k
                 /\ \A j \in 1..Len(old) : j # i => new[j] = old[j]
            ELSE /\ Len(new) = Len(old) + 1
                 /\ KeyOf(new[Len(new)]) = KeyOf(Stored(last'.entry))
                 /\ \A j \in 1..Len(old) : new[j] = old[j]]_vars

\* C2 witness: a successful SetupMFA has replaced the first of two entries
C2_Witness ==
    /\ last.op = "SetupMFA" /\ last.status = "ok"
    /\ Len(file["mfa"].entries) = 2
    /\ KeyOf(file["mfa"].entries[1]) = KeyOf(last.entry)
    /\ file["mfa"].entries[1].Secret = last.entry.Secret
    /\ KeyOf(file["mfa"].entries[2]) # KeyOf(last.entry)

\* C3: an upsert that does not succeed leaves the stored collection exactly
\* as it was, and the success line is written only by an upsert that
\* succeeds.
C3_FailedUpsertChangesNothing ==
    [][(last'.op \in Upserts /\ last'.status # "ok") =>
        (file' = file /\ ~last'.printed)]_vars

\* a non-empty secret with no character of the Base32 alphabet
OnlyInvalidChars(secret) == Len(secret) > 0 /\ FilterSecret(secret) = << >>

\* C5: SetupMFA with a secret made only of characters outside the Base32
\* alphabet (and a positive period) returns an error.
C5_InvalidSecretRejected ==
    (last.op = "SetupMFA" /\ OnlyInvalidChars(last.entry.Secret)
        /\ last.entry.Period > 0) => last.status = "error"

\* C7: loading a store whose file does not exist or has zero bytes returns
\* the empty collection without an error, for all three stores.
C7_EmptyFileLoadsEmpty ==
    /\ file["mfa"].st \in {"absent", "empty"} =>
            loadMFAStorage(file["mfa"], "ok") = [err |-> FALSE, entries |-> << >>]
    /\ file["pass"].st \in {"absent", "empty"} =>
            loadPasswordStorage(file["pass"], "ok") = [err |-> FALSE, entries |-> << >>]
    /\ file["pin"].st \in {"absent", "empty"} =>
            loadMPINConfig(file["pin"], "ok") = [err |-> FALSE, entries |-> << >>]

\* C8: AddPassword and AddMPIN with a length of 0 or less return an error
\* and leave the files as they were.
C8_NonPositiveLengthWritesNothing ==
    [][(last'.op \in {"AddPassword", "AddMPIN"} /\ last'.length <= 0) =>
        (last'.status = "error" /\ file' = file)]_vars

\* C8 witness: AddPassword with a length of 0 or less was refused for a key
\* the collection already holds
C8_Witness ==
    /\ last.op = "AddPassword" /\ last.length <= 0 /\ last.status = "error"
    /\ last.entry.Name # << >>
    /\ IndexOfKey(file["pass"].entries, KeyOf(last.entry)) # 0

\* C9: after a successful store, listing or retrieving returns the entry
\* field for field as it was given (MFA) or reported (password, PIN).
C9_RoundTrip ==
    /\ (last.op = "SetupMFA" /\ last.status = "ok") =>
            \E i \in 1..Len(ListMFA(file["mfa"], "ok").entries) :
                ListMFA(file["mfa"], "ok").entries[i] = last.entry
    /\ (last.op = "AddPassword" /\ last.status = "ok") =>
            \E i \in 1..Len(GetPasswords(file["pass"], "ok").entries) :
                GetPasswords(file["pass"], "ok").entries[i] = last.entry
    /\ (last.op = "AddMPIN" /\ last.status = "ok") =>
            GetMPIN(file["pin"], last.entry.Name, last.entry.Account, "ok").entries
                = <<last.entry>>

-----------------------------------------------------------------------------
(* The TOTP time counter as a function of its arguments and the clock *)

\* the time offsets generateTOTPCodes passes
Offsets == {-60, -30, 0, 30, 60}

TotpSecrets == {Str_ME, Str_MFRGG, Str_mfrgg_spaced, Str_0189, Str_ABC}

TotpPeriods == {-DefaultPeriod, 0, 2, DefaultPeriod}

\* one call of generateTOTPWithOffset
CallGenerateTOTP ==
    \E secret \in TotpSecrets, period \in TotpPeriods, clock \in 0..MaxClock,
       timeOffset \in Offsets :
        /\ tcall' = [called |-> TRUE, secret |-> secret, period |-> period,
                     clock |-> clock, timeOffset |-> timeOffset,
                     res |-> generateTOTPWithOffset(secret, period, clock, timeOffset)]
        /\ UNCHANGED <<file, last, fcall, pc, snap, arg, writer>>

NextTotp == CallGenerateTOTP

SpecTotp == Init /\ [][NextTotp]_vars

\* C4: a call with a period of zero or less returns an error (it neither
\* divides by the period nor returns a code).
C4_NonPositivePeriodRejected ==
    (tcall.called /\ tcall.period <= 0) => tcall.res.status = "error"

\* C6: for a period p > 0 and the time t = clock + offset, a call that
\* returns a code reports 1 <= remaining <= p, remaining = p exactly when t
\* is a multiple of p, and counter = floor(t / p), that is
\* counter * p <= t < (counter + 1) * p.
C6_RemainingAndCounter ==
    (tcall.called /\ tcall.period > 0 /\ tcall.res.status = "ok") =>
        LET p == tcall.period
            t == tcall.clock + tcall.timeOffset
        IN  /\ 1 <= tcall.res.remaining /\ tcall.res.remaining <= p
            /\ (tcall.res.remaining = p) <=> (t % p = 0)
            /\ tcall.res.counter * p <= t
            /\ t < (tcall.res.counter + 1) * p

-----------------------------------------------------------------------------
(* Two SetupMFA invocations running at once on the MFA file: the load and  *)
(* the save of each are separate steps and nothing locks the file.  No I/O *)
(* failure is injected here.                                               *)

\* process p validates its arguments and loads the storage
ConcLoad(p) ==
    \E account \in MFAAccounts, name \in Names, secret \in Secrets,
       period \in Periods, clock \in {0, MaxClock} :
        LET v == generateTOTP(secret, period, clock)
            storage == loadMFAStorage(file["mfa"], "ok")
        IN  /\ pc[p] = "idle"
            /\ arg' = [arg EXCEPT ![p] = MFAEntry(account, name, secret, period)]
            /\ IF v.status # "ok" \/ storage.err
               THEN /\ pc' = [pc EXCEPT ![p] = "failed"]
                    /\ snap' = snap
               ELSE /\ pc' = [pc EXCEPT ![p] = "loaded"]
                    /\ snap' = [snap EXCEPT ![p] = storage.entries]
            /\ UNCHANGED <<file, last, tcall, fcall, writer>>

\* process p scans the storage it loaded and rewrites the file
ConcSave(p) ==
    LET r == storeMFA(file["mfa"], snap[p], arg[p].Account, arg[p].Name,
                      arg[p].Secret, arg[p].Period, "ok")
    IN  /\ pc[p] = "loaded"
        /\ file' = [file EXCEPT !["mfa"] = r.file]
        /\ pc' = [pc EXCEPT ![p] = "done"]
        /\ writer' = p
        /\ UNCHANGED <<last, tcall, fcall, snap, arg>>

NextConc == \E p \in Procs : ConcLoad(p) \/ ConcSave(p)

SpecConc == Init /\ [][NextConc]_vars

\* C10: when two invocations with different keys have both loaded the same
\* storage and both saved, the file holds what the last writer wrote from
\* its own snapshot, and the other writer's entry is not in it.
C10_LostUpdate ==
    \A p, q \in Procs :
        (/\ p # q /\ pc[p] = "done" /\ pc[q] = "done" /\ writer = q
         /\ KeyOf(arg[p]) # KeyOf(arg[q])
         /\ snap[p] = snap[q])
        => /\ file["mfa"].entries =
                marshalMFA(upsertMFA(snap[q], arg[q].Account, arg[q].Name,
                                     arg[q].Secret, arg[q].Period))
           /\ IndexOfKey(file["mfa"].entries, KeyOf(Stored(arg[p]))) = 0

\* C10 witness: both invocations loaded the empty storage, both saved, and
\* the file holds one entry
C10_Witness ==
    /\ pc[1] = "done" /\ pc[2] = "done"
    /\ KeyOf(arg[1]) # KeyOf(arg[2])
    /\ snap[1] = << >> /\ snap[2] = << >>
    /\ Len(file["mfa"].entries) = 1

-----------------------------------------------------------------------------
(* The add-pass command and AddPassword called as a function, on the       *)
(* password file                                                           *)

\* the -a, -A, -d and -s arguments tried: none, -s default, -a
PassFlags ==
    { [a |-> FALSE, A |-> FALSE, d |-> FALSE, s |-> Str_empty],
      [a |-> FALSE, A |-> FALSE, d |-> FALSE, s |-> Str_default],
      [a |-> TRUE,  A |-> FALSE, d |-> FALSE, s |-> Str_empty] }

PassKeys == {<<Str_n, Str_a>>, <<Str_empty, Str_a>>}

PassLengths == {0, 1}

PassFaults == {"none", "load", "rand", "trunc"}

\* one run of the add-pass command
RunHandleAddPassword ==
    \E k \in PassKeys, length \in PassLengths, c \in PassFlags, fault \in PassFaults :
        \E draws \in Draws(length) :
            LET r == handleAddPassword(file["pass"], k[1], k[2], length, c.a, c.A,
                                       c.d, c.s, draws, RandOf(fault),
                                       LoadOf(fault), SaveOf(fault))
            IN  /\ file' = [file EXCEPT !["pass"] = r.file]
                /\ last' = [op |-> "handleAddPassword", store |-> "pass",
                            status |-> r.status, printed |-> r.printed,
                            entry |-> r.entry, length |-> length, out |-> << >>,
                            why |-> r.why, flags |-> c, draws |-> draws]
                /\ UNCHANGED <<tcall, fcall, pc, snap, arg, writer>>

\* one call of AddPassword with the arguments as given
RunAddPassword ==
    \E k \in PassKeys, length \in PassLengths, c \in PassFlags, fault \in PassFaults :
        \E draws \in Draws(length) :
            LET r == AddPassword(file["pass"], k[1], k[2], length, c.a, c.A, c.d,
                                 c.s, draws, RandOf(fault), LoadOf(fault),
                                 SaveOf(fault))
            IN  /\ file' = [file EXCEPT !["pass"] = r.file]
                /\ last' = [op |-> "AddPassword", store |-> "pass",
                            status |-> r.status, printed |-> r.printed,
                            entry |-> r.entry, length |-> length, out |-> << >>,
                            why |-> r.why, flags |-> c, draws |-> draws]
                /\ UNCHANGED <<tcall, fcall, pc, snap, arg, writer>>

NextPass == RunHandleAddPassword \/ RunAddPassword

SpecPass == Init /\ [][NextPass]_vars

\* no class flag and no special-character string were given
NoClassGiven(c) == ~c.a /\ ~c.A /\ ~c.d /\ c.s = << >>

\* lowercase + uppercase + digits + the default special characters
FullAlphabet == Lowercase \o Uppercase \o Digits \o DefaultSpecial

\* "lowercase, uppercase, digits, special(<the default special characters>)"
FullConfig ==
    Join(<<W_lowercase, W_uppercase, W_digits,
           W_special \o DefaultSpecial \o W_close>>, W_comma)

\* C11: a generation requested with no class flag and no special-character
\* string never fails for want of characters; when it succeeds each
\* character is the one the random draw picks in lowercase + uppercase +
\* digits + the default special set, and the entry persisted holds that
\* password with a config that tells the fallback: the four classes by name
\* when the command applied it, "all (default)" when AddPassword did.
C11_DefaultFallback ==
    (last.op \in {"handleAddPassword", "AddPassword"} /\ NoClassGiven(last.flags)) =>
        /\ last.why # "nochars"
        /\ last.status = "ok" =>
            LET i == KeyIndex(file["pass"].entries, last.entry.Name, last.entry.Account)
            IN  /\ DefaultSpecial # << >>
                /\ last.entry.Password =
                        [j \in 1..last.length |->
                            FullAlphabet[RandIndex(last.draws[j], Len(FullAlphabet)) + 1]]
                /\ last.entry.Config =
                        IF last.op = "handleAddPassword" THEN FullConfig
                        ELSE W_all_default
                /\ i # 0
                /\ file["pass"].entries[i] = last.entry

\* C11 witness: the command, given no class flag and no special string,
\* has stored a password whose character is the last default special one
C11_Witness ==
    /\ last.op = "handleAddPassword" /\ NoClassGiven(last.flags)
    /\ last.status = "ok"
    /\ last.entry.Password = <<63>>
    /\ Len(file["pass"].entries) = 1
    /\ file["pass"].entries[1].Config = FullConfig

-----------------------------------------------------------------------------
(* The secret normalizer as a function of its argument *)

\* the longest unpadded secret tried
MaxSecretLen == 10
\* the longest string of arbitrary bytes tried
MaxArbLen == 3

\* "A" and "7": one letter and one digit of the Base32 alphabet
SecretChars == {65, 55}

\* a, A, =, 1, and the two bytes of U+017F
ArbBytes == {97, 65, 61, 49, 197, 191}

\* the padding base32.StdEncoding gives an encoding of n characters
StdPadding(n) ==
    IF n % 8 = 2 THEN 6 ELSE IF n % 8 = 4 THEN 4 ELSE IF n % 8 = 5 THEN 3
    ELSE IF n % 8 = 7 THEN 1 ELSE 0

\* the arguments tried: every string of Base32 characters up to MaxSecretLen,
\* bare and with its standard padding, and every string of arbitrary bytes
\* up to MaxArbLen
CleanInputs ==
    LET bodies == UNION {[1..n -> SecretChars] : n \in 0..MaxSecretLen}
    IN  bodies
        \cup {b \o Pad(StdPadding(Len(b))) : b \in bodies}
        \cup UNION {[1..n -> ArbBytes] : n \in 0..MaxArbLen}
        \cup TotpSecrets

\* one call of cleanSecret, and one more on its result; a behaviour is one
\* call, the function keeps no state between calls
CallCleanSecret ==
    \E x \in CleanInputs :
        /\ fcall.fn = "none"
        /\ fcall' = [fn |-> "cleanSecret", x |-> x, once |-> cleanSecret(x),
                     twice |-> cleanSecret(cleanSecret(x))]
        /\ UNCHANGED <<file, last, tcall, pc, snap, arg, writer>>

NextClean == CallCleanSecret

SpecClean == Init /\ [][NextClean]_vars

\* s is n characters of A-Z and 2-7, n mod 8 in {0, 2, 4, 5, 7}, followed by
\* the '=' characters that bring its length to the next multiple of 8
IsCanonical(s) ==
    \E n \in 0..Len(s) :
        /\ n % 8 \in {0, 2, 4, 5, 7}
        /\ Len(s) = n + ((8 - (n % 8)) % 8)
        /\ \A i \in 1..n : (s[i] >= 65 /\ s[i] <= 90) \/ (s[i] >= 50 /\ s[i] <= 55)
        /\ \A i \in (n + 1)..Len(s) : s[i] = 61

\* C12: cleanSecret returns a canonical padded Base32 string as it is, and
\* for every argument cleanSecret of the result is the result.
C12_CleanSecretIdempotent ==
    fcall.fn = "cleanSecret" =>
        /\ IsCanonical(fcall.x) => fcall.once = fcall.x
        /\ fcall.twice = fcall.once

\* C12 witness: cleanSecret was called on a canonical string of two quanta
\* that ends in padding
C12_Witness ==
    /\ fcall.fn = "cleanSecret" /\ IsCanonical(fcall.x)
    /\ Len(fcall.x) = 16 /\ fcall.x[11] = 61 /\ fcall.x[10] # 61
    /\ fcall.once = fcall.x

-----------------------------------------------------------------------------
(* Lookups and unreadable files, checked under Spec *)

\* C13: GenerateMFA for an (account, name) pair that no entry of the MFA
\* file has returns an error and no code, GetMPIN for a (name, account) pair
\* that no entry of the PIN file has returns an error and no PIN, and
\* neither changes a file.
C13_AbsentKeyNotFound ==
    [][/\ (/\ last'.op = "GenerateMFA"
           /\ MFAIndex(file["mfa"].entries, last'.entry.Account, last'.entry.Name) = 0)
          => /\ last'.status = "error" /\ last'.out = << >>
             /\ last'.why \in {"notfound", "load"}
             /\ file' = file
       /\ (/\ last'.op = "GetMPIN"
           /\ KeyIndex(file["pin"].entries, last'.entry.Name, last'.entry.Account) = 0)
          => /\ last'.status = "error" /\ last'.out = << >>
             /\ file' = file]_vars

\* C13 witness: GenerateMFA has looked in a file that holds an entry, found
\* no entry with the pair it was given, and returned the not-found error
C13_Witness ==
    /\ last.op = "GenerateMFA" /\ last.status = "error" /\ last.why = "notfound"
    /\ Len(file["mfa"].entries) >= 1
    /\ MFAIndex(file["mfa"].entries, last.entry.Account, last.entry.Name) = 0

-----------------------------------------------------------------------------
(* The one-time code as a function of the secret, the period and the time *)

\* "GEZDGNBVGY3TQOJQGEZDGNBVGY3TQOJQ": Str_rfc in Base32
Str_rfc_b32 ==
    <<71, 69, 90, 68, 71, 78, 66, 86, 71, 89, 51, 84, 81, 79, 74, 81,
      71, 69, 90, 68, 71, 78, 66, 86, 71, 89, 51, 84, 81, 79, 74, 81>>

RfcSecrets == {Str_rfc_b32, Str_ME, Str_0189, Str_ABC}

RfcPeriods == {0, DefaultPeriod}

\* the times of the RFC 6238 test vectors that fit 31 bits
RfcClocks == {59, 1111111109, 1111111111, 1234567890, 2000000000}

RfcOffsets == {-30, 0, 30}

\* one call of generateTOTPWithOffset; a behaviour is one call
CallGenerateTOTPCode ==
    \E secret \in RfcSecrets, period \in RfcPeriods, clock \in RfcClocks,
       timeOffset \in RfcOffsets :
        /\ fcall.fn = "none"
        /\ fcall' = [fn |-> "generateTOTPWithOffset", secret |-> secret,
                     period |-> period, clock |-> clock, timeOffset |-> timeOffset,
                     res |-> generateTOTPWithOffsetCode(secret, period, clock,
                                                        timeOffset)]
        /\ UNCHANGED <<file, last, tcall, pc, snap, arg, writer>>

\* one run of testTOTP
RunTestTOTP ==
    /\ fcall.fn = "none"
    /\ fcall' = [fn |-> "testTOTP", res |-> testTOTP]
    /\ UNCHANGED <<file, last, tcall, pc, snap, arg, writer>>

NextRfc == CallGenerateTOTPCode \/ RunTestTOTP

SpecRfc == Init /\ [][NextRfc]_vars

\* "287082"
Str_287082 == <<50, 56, 55, 48, 56, 50>>

\* C14: with the key bytes "12345678901234567890", the time 59 and the
\* period 30, generateTOTPWithOffset has counter 1, a truncated 31-bit value
\* whose last eight digits are 94287082, and returns "287082"; testTOTP
\* computes the same from the raw key bytes.
C14_Rfc6238Vector ==
    /\ (/\ fcall.fn = "generateTOTPWithOffset"
        /\ fcall.secret = Str_rfc_b32 /\ fcall.period = 30
        /\ fcall.clock + fcall.timeOffset = 59)
       => /\ fcall.res.status = "ok"
          /\ fcall.res.key = Str_rfc
          /\ fcall.res.counter = 1
          /\ fcall.res.code.truncatedHash % 100000000 = 94287082
          /\ fcall.res.code.otp = Str_287082
    /\ fcall.fn = "testTOTP"
       => /\ fcall.res.testCounter = 1
          /\ fcall.res.code.truncatedHash % 100000000 = 94287082
          /\ fcall.res.code.otp = Str_287082

\* C14 witness: generateTOTPWithOffset was called with the Base32 form of
\* the RFC secret and the period 30 at the time 59, and returned a code
\* for the 20 key bytes
C14_Witness ==
    /\ fcall.fn = "generateTOTPWithOffset"
    /\ fcall.secret = Str_rfc_b32 /\ fcall.period = 30
    /\ fcall.clock = 59 /\ fcall.timeOffset = 0
    /\ fcall.res.status = "ok" /\ Len(fcall.res.key) = 20
    /\ Len(fcall.res.code.otp) = 6

Reads == {"ListMFA", "GenerateMFA", "GetPasswords", "GetMPIN", "ListMPINs"}

\* C15: when the file of a collection holds bytes that do not parse, every
\* upsert and every read on that collection returns an error (a SetupMFA
\* whose period is not positive may end before it loads, see C4), a read
\* returns no entry, and the file is left as it is.
C15_UnparsableFileKept ==
    [][\A s \in Stores :
        (/\ file[s].st = "partial"
         /\ last'.store = s /\ last'.op \in Upserts \cup Reads)
        => /\ file' = file
           /\ last'.status # "ok"
           /\ (last'.op = "SetupMFA" /\ last'.entry.Period <= 0)
                \/ last'.status = "error"
           /\ last'.op \in Reads => last'.out = << >>]_vars

\* C15 witness: AddPassword has returned the load error on a file that
\* does not parse
C15_Witness ==
    /\ last.op = "AddPassword" /\ last.status = "error" /\ last.why = "load"
    /\ file["pass"].st = "partial"

\* the secret normalizes to a string base32 decoding refuses
SecretFailsDecoding(secret) == Base32Corrupt(cleanSecret(secret), 0)

\* C16: SetupMFA with a secret that fails decoding returns an error and
\* leaves the MFA file as it is; no entry of the MFA file has a secret that
\* fails decoding; GenerateMFA never returns the error of a failed code
\* generation.
C16_StoredSecretsDecode ==
    [][/\ (last'.op = "SetupMFA" /\ SecretFailsDecoding(last'.entry.Secret))
          => (last'.status = "error" /\ file' = file)
       /\ \A i \in 1..Len(file'["mfa"].entries) :
            ~SecretFailsDecoding(file'["mfa"].entries[i].Secret)
       /\ last'.op = "GenerateMFA" => last'.why # "totp"]_vars

\* C16 witness: GenerateMFA has returned a code for an entry whose secret
\* was rewritten by the JSON encoding when SetupMFA stored it
C16_Witness ==
    /\ last.op = "GenerateMFA" /\ last.status = "ok"
    /\ Len(last.out) = 1
    /\ last.out[1].Secret \notin Secrets

-----------------------------------------------------------------------------
(* Key uniqueness under concurrent SetupMFA invocations, checked under     *)
(* SpecConc                                                                *)

\* C17: with every load and every save one atomic step, and two SetupMFA
\* invocations interleaved in any order, the MFA file never holds two
\* entries with the same (account, name).
C17_ConcKeysUnique == KeysDistinct(file["mfa"].entries)

====
